---- MODULE Spec2Model ----
(***************************************************************************)
(* A model of the copilot-api protocol translation code:                   *)
(*   - the streaming loop of handleCompletion (routes/messages/handler.ts) *)
(*     with the per-stream accumulator and the chunk translator it calls,  *)
(*   - the request translation (translateToOpenAI and its helpers),        *)
(*   - the model-name normalisation (translateModelName),                  *)
(*   - the response translation (translateToAnthropic),                    *)
(*   - two streaming callbacks running concurrently,                       *)
(*   - createChatCompletions with resolveExternalImages.                   *)
(* Each part has its own specification over the shared variables.          *)
(***************************************************************************)
EXTENDS Integers, Sequences, FiniteSets, TLC

VARIABLES
    pc,           \* position of the streamSSE callback: "start", "loop", "done"
    streamState,  \* AnthropicStreamState of the stream
    events,       \* the events written to the downstream sink, in order
    nread,        \* raw records taken from the upstream iterator so far
    finished,     \* history: a fragment carrying a finish_reason was translated
    failed,       \* history: processing a fragment threw
    rpc,          \* request translation: "idle" or "translated"
    request,      \* the Anthropic payload (system, messages)
    upstream,     \* the translated OpenAI message list
    mpc,          \* model-name translation: "idle", "once", "twice"
    modelIn,      \* the model identifier of the payload
    modelOut,     \* translateModelName(modelIn)
    modelOut2,    \* translateModelName(modelOut)
    spc,          \* response translation: "idle" or "translated"
    response,     \* the upstream ChatCompletionResponse
    anthropic,    \* the translated Anthropic response
    cpc,          \* concurrent streams: position of each streamSSE callback
    accs,         \* concurrent streams: the AnthropicStreamState objects
    cevents,      \* concurrent streams: the events written to each sink
    cread,        \* concurrent streams: the raw records each stream has taken
    clast,        \* history: the stream that processed the latest record
    cturns,       \* history: times the processing went from one stream to another
    ipc,          \* createChatCompletions: "idle", "threw", "returned", "http_error"
    payload,      \* the ChatCompletionsPayload handed to createChatCompletions
    web,          \* what fetching each external image URL gives
    token,        \* state.copilotToken is set
    sent          \* the request posted to the upstream, if any

streamVars == <<pc, streamState, events, nread, finished, failed>>
reqVars == <<rpc, request, upstream>>
modelVars == <<mpc, modelIn, modelOut, modelOut2>>
respVars == <<spc, response, anthropic>>
conVars == <<cpc, accs, cevents, cread, clast, cturns>>
imgVars == <<ipc, payload, web, token, sent>>
vars == <<streamVars, reqVars, modelVars, respVars, conVars, imgVars>>

(***************************************************************************)
(* Bounds of the model.                                                    *)
(***************************************************************************)
\* raw records read from one upstream stream
MaxFragments == 3
\* blocks in one content list
MaxBlocks == 3
\* turns in one request
MaxTurns == 2
\* pieces an input model identifier is assembled from
MaxPieces == 3
\* choices in one upstream response
MaxChoices == 3
\* raw records read by each of the concurrent streams
MaxStreamReads == 2

Null == [kind |-> "null"]
Str(s) == [kind |-> "string", s |-> s]
Parts(p) == [kind |-> "parts", parts |-> p]

RECURSIVE SeqsUpTo(_, _)
\* all sequences over S of length 0..n
SeqsUpTo(S, n) ==
    IF n = 0 THEN {<<>>}
    ELSE LET shorter == SeqsUpTo(S, n - 1)
         IN shorter \cup {Append(q, x) : q \in shorter, x \in S}

RECURSIVE Join(_, _)
\* Array.prototype.join over a sequence of strings
Join(strs, sep) ==
    IF Len(strs) = 0 THEN ""
    ELSE IF Len(strs) = 1 THEN strs[1]
    ELSE strs[1] \o sep \o Join(Tail(strs), sep)

RECURSIVE FlatMap(_, _)
\* Array.prototype.flatMap with f given as a function on the elements of q
FlatMap(q, f) ==
    IF Len(q) = 0 THEN <<>> ELSE f[Head(q)] \o FlatMap(Tail(q), f)

(***************************************************************************)
(* Stop-reason vocabulary (utils.ts, mapOpenAIStopReasonToAnthropic).      *)
(***************************************************************************)
mapOpenAIStopReasonToAnthropic(reason) ==
    CASE reason = "stop" -> "end_turn"
      [] reason = "length" -> "max_tokens"
      [] reason = "tool_calls" -> "tool_use"
      [] reason = "content_filter" -> "stop_sequence"
      [] OTHER -> "null"

(***************************************************************************)
(* Streaming: upstream records and chunks.                                 *)
(***************************************************************************)
ToolIndexes == {0, 1}

\* one entry of delta.tool_calls: the upstream index, whether id and
\* function.name are present, whether function.arguments is present
ToolCallDeltas ==
    [index : ToolIndexes, hasIdName : BOOLEAN, hasArgs : BOOLEAN]

ToolCallLists == {<<>>} \cup {<<t>> : t \in ToolCallDeltas}

\* finish_reason of choices[0]; "null" is the absent reason
FinishReasons == {"null", "stop", "tool_calls"}

\* a decoded ChatCompletionChunk: choices[0].delta.content (present and
\* non-empty or not), choices[0].delta.tool_calls, choices[0].finish_reason
Chunks ==
    [content : BOOLEAN, tool_calls : ToolCallLists, finish_reason : FinishReasons]

NoChunk == [content |-> FALSE, tool_calls |-> <<>>, finish_reason |-> "null"]

\* a raw SSE record: the terminator "[DONE]", an empty data field, text that is
\* not JSON, or the JSON text of a chunk
RawRecords ==
    {[kind |-> k, chunk |-> NoChunk] : k \in {"done", "empty", "invalid"}}
        \cup {[kind |-> "json", chunk |-> c] : c \in Chunks}

Ev(type, index, detail) == [type |-> type, index |-> index, detail |-> detail]

InitStreamState ==
    [messageStartSent |-> FALSE,
     contentBlockIndex |-> 0,
     contentBlockOpen |-> FALSE,
     toolCalls |-> <<>>]

(***************************************************************************)
(* translateChunkToAnthropicEvents (stream-translation.ts), following the  *)
(* per-fragment steps 1 to 4 of section 4.3 of the specification.  A       *)
(* translation in progress is r = [ok, st, ev]: whether it has thrown, the *)
(* accumulator, the events collected so far.  contentBlockIndex is the     *)
(* index of the open block, or of the next block when none is open.        *)
(***************************************************************************)
isToolBlockOpen(st) ==
    /\ st.contentBlockOpen
    /\ \E i \in DOMAIN st.toolCalls :
          st.toolCalls[i].blockIndex = st.contentBlockIndex

\* content_block_stop for the open block, if any; the index moves on
CloseBlock(r) ==
    IF r.st.contentBlockOpen
    THEN [r EXCEPT
            !.ev = Append(@, Ev("content_block_stop", r.st.contentBlockIndex, "")),
            !.st = [r.st EXCEPT !.contentBlockOpen = FALSE,
                                !.contentBlockIndex = @ + 1]]
    ELSE r

\* content_block_start of a block of the given type at the next index
OpenBlock(r, type) ==
    [r EXCEPT
        !.ev = Append(@, Ev("content_block_start", r.st.contentBlockIndex, type)),
        !.st = [r.st EXCEPT !.contentBlockOpen = TRUE]]

\* step 1: message_start before anything else
StepMessageStart(r) ==
    IF r.st.messageStartSent THEN r
    ELSE [r EXCEPT !.ev = Append(@, Ev("message_start", -1, "")),
                   !.st = [r.st EXCEPT !.messageStartSent = TRUE]]

\* step 2: a text delta
StepContent(r, chunk) ==
    IF ~chunk.content THEN r
    ELSE LET opened ==
                 IF ~r.st.contentBlockOpen \/ isToolBlockOpen(r.st)
                 THEN OpenBlock(CloseBlock(r), "text")
                 ELSE r
         IN [opened EXCEPT
                !.ev = Append(@, Ev("content_block_delta",
                                    opened.st.contentBlockIndex, "text_delta"))]

\* step 3, one entry of delta.tool_calls
StepToolCall(r, tc) ==
    IF ~r.ok THEN r
    ELSE LET known == tc.index \in DOMAIN r.st.toolCalls
             started ==
                 IF known THEN r
                 ELSE IF ~tc.hasIdName THEN [r EXCEPT !.ok = FALSE]
                 ELSE LET o == OpenBlock(CloseBlock(r), "tool_use")
                      IN [o EXCEPT !.st.toolCalls =
                            [i \in DOMAIN @ \cup {tc.index} |->
                                IF i = tc.index
                                THEN [blockIndex |-> o.st.contentBlockIndex,
                                      args |-> 0]
                                ELSE @[i]]]
         IN IF ~started.ok \/ ~tc.hasArgs THEN started
            ELSE [started EXCEPT
                    !.st.toolCalls[tc.index].args = @ + 1,
                    !.ev = Append(@, Ev("content_block_delta",
                                        started.st.toolCalls[tc.index].blockIndex,
                                        "input_json_delta"))]

RECURSIVE StepToolCalls(_, _)
StepToolCalls(r, tcs) ==
    IF Len(tcs) = 0 THEN r
    ELSE StepToolCalls(StepToolCall(r, Head(tcs)), Tail(tcs))

\* step 4: the finish reason
StepFinish(r, chunk) ==
    IF ~r.ok \/ chunk.finish_reason = "null" THEN r
    ELSE LET c == CloseBlock(r)
         IN [c EXCEPT !.ev = c.ev \o
                <<Ev("message_delta", -1,
                     mapOpenAIStopReasonToAnthropic(chunk.finish_reason)),
                  Ev("message_stop", -1, "")>>]

translateChunkToAnthropicEvents(chunk, st) ==
    StepFinish(
        StepToolCalls(
            StepContent(StepMessageStart([ok |-> TRUE, st |-> st, ev |-> <<>>]),
                        chunk),
            chunk.tool_calls),
        chunk)

\* JSON.parse(rawEvent.data) followed by the translation: ok is FALSE when
\* either throws
ProcessRecord(raw, st) ==
    IF raw.kind # "json" THEN [ok |-> FALSE, st |-> st, ev |-> <<>>]
    ELSE translateChunkToAnthropicEvents(raw.chunk, st)

(***************************************************************************)
(* The streamSSE callback of handleCompletion.                             *)
(***************************************************************************)
StreamInit ==
    /\ pc = "start"
    /\ streamState = InitStreamState
    /\ events = <<>>
    /\ nread = 0
    /\ finished = FALSE
    /\ failed = FALSE

\* the ping written before the loop
NoPing == <<>>
PingEvents == <<Ev("ping", -1, "")>>

StreamOpen ==
    /\ pc = "start"
    /\ events' = events \o PingEvents
    /\ pc' = "loop"
    /\ UNCHANGED <<streamState, nread, finished, failed>>
    /\ UNCHANGED <<reqVars, modelVars, respVars, conVars, imgVars>>

\* rawEvent.data === "[DONE]": break
RecvDone ==
    /\ pc = "loop"
    /\ pc' = "done"
    /\ UNCHANGED <<streamState, events, nread, finished, failed>>
    /\ UNCHANGED <<reqVars, modelVars, respVars, conVars, imgVars>>

\* !rawEvent.data: continue
RecvEmpty ==
    /\ pc = "loop"
    /\ nread < MaxFragments
    /\ nread' = nread + 1
    /\ UNCHANGED <<pc, streamState, events, finished, failed>>
    /\ UNCHANGED <<reqVars, modelVars, respVars, conVars, imgVars>>

\* the try block ran to its end: every translated event is written
RecvChunk ==
    /\ pc = "loop"
    /\ nread < MaxFragments
    /\ \E raw \in RawRecords :
          /\ raw.kind \in {"json", "invalid"}
          /\ LET r == ProcessRecord(raw, streamState)
             IN /\ r.ok
                /\ events' = events \o r.ev
                /\ streamState' = r.st
                /\ finished' = (finished \/ raw.chunk.finish_reason # "null")
    /\ nread' = nread + 1
    /\ UNCHANGED <<pc, failed>>
    /\ UNCHANGED <<reqVars, modelVars, respVars, conVars, imgVars>>

\* what the catch block writes, and where the loop goes after it
ErrorEvent == Ev("error", -1, "")
CatchEvents == <<ErrorEvent>>
CatchContinues == "loop"
CatchNext == "done"

\* the try block threw: the events of the chunk are not written, the error
\* event is, and the loop is left
RecvError ==
    /\ pc = "loop"
    /\ nread < MaxFragments
    /\ \E raw \in RawRecords :
          /\ raw.kind \in {"json", "invalid"}
          /\ LET r == ProcessRecord(raw, streamState)
             IN /\ ~r.ok
                /\ streamState' = r.st
    /\ events' = events \o CatchEvents
    /\ pc' = CatchNext
    /\ failed' = TRUE
    /\ nread' = nread + 1
    /\ UNCHANGED finished
    /\ UNCHANGED <<reqVars, modelVars, respVars, conVars, imgVars>>

(***************************************************************************)
(* The emitted event sequence.                                             *)
(***************************************************************************)
IsBlockEvent(e) ==
    e.type \in {"content_block_start", "content_block_delta", "content_block_stop"}

Count(evs, type) == Len(SelectSeq(evs, LAMBDA e : e.type = type))

\* the block events of index I, in emission order
BlockEventsOf(evs, I) == SelectSeq(evs, LAMBDA e : IsBlockEvent(e) /\ e.index = I)

BlockIndexes(evs) == {evs[k].index : k \in {j \in 1..Len(evs) : IsBlockEvent(evs[j])}}

\* the indexes started and not stopped in evs
OpenIndexes(evs) ==
    {I \in BlockIndexes(evs) :
        /\ \E k \in 1..Len(evs) : evs[k] = Ev("content_block_start", I, evs[k].detail)
        /\ ~\E k \in 1..Len(evs) : evs[k] = Ev("content_block_stop", I, "")}

\* start, then deltas, then at most one stop, which is the last event of I
LifecycleOrder(evs) ==
    \A I \in BlockIndexes(evs) :
        LET be == BlockEventsOf(evs, I)
        IN /\ be[1].type = "content_block_start"
           /\ \A k \in 2..Len(be) : be[k].type # "content_block_start"
           /\ \A k \in 1..(Len(be) - 1) : be[k].type # "content_block_stop"

\* the starts carry 0, 1, 2, ... in emission order
DenseIndexes(evs) ==
    LET starts == SelectSeq(evs, LAMBDA e : e.type = "content_block_start")
    IN \A i \in 1..Len(starts) : starts[i].index = i - 1

\* every start comes after the stop of every block started before it
OneOpenAtATime(evs) ==
    \A k \in 1..Len(evs) :
        evs[k].type = "content_block_start" =>
            OpenIndexes(SubSeq(evs, 1, k - 1)) = {}

\* C1: in every stream the events of each block index are one start, then
\* deltas, then one stop; the indexes are dense from 0 in emission order; no two
\* blocks are open at once.  The stop is asked for once the stream is over, and
\* only of a stream that did not end in the error event (section 7 leaves the
\* open block of a failed stream unclosed).
C1_BlockLifecycle ==
    /\ LifecycleOrder(events)
    /\ DenseIndexes(events)
    /\ OneOpenAtATime(events)
    /\ (pc = "done" /\ ~failed) => OpenIndexes(events) = {}

\* C2 as stated: the first event is ping, and message_start is emitted exactly
\* once in the whole stream, before any content_block_* event.
C2_ExactlyOneMessageStart ==
    /\ (Len(events) > 0 => events[1].type = "ping")
    /\ \A k \in 1..Len(events) :
          IsBlockEvent(events[k]) =>
              \E j \in 1..(k - 1) : events[j].type = "message_start"
    /\ pc = "done" => Count(events, "message_start") = 1

\* C2 amended: the first event written is ping; message_start is emitted at most
\* once and before any content_block_* event; it has been emitted exactly once
\* as soon as one fragment has been translated, and not at all in a stream
\* that ends (terminator or error) before that.
C2_PingThenMessageStart ==
    /\ (pc # "start" => Len(events) > 0 /\ events[1].type = "ping")
    /\ Count(events, "ping") <= 1
    /\ Count(events, "message_start") <= 1
    /\ \A k \in 1..Len(events) :
          IsBlockEvent(events[k]) =>
              \E j \in 1..(k - 1) : events[j].type = "message_start"
    /\ (Count(events, "message_start") = 1) <=> (\E k \in 1..Len(events) :
                                                     events[k].type \notin {"ping", "error"})

\* a second fragment was translated after message_start and a block event
C2_Witness ==
    /\ Count(events, "message_start") = 1
    /\ Count(events, "content_block_delta") >= 2
    /\ pc = "done"

\* C3: when the terminator arrives and no fragment carried a finish_reason, the
\* open block is closed and the stream ends with message_delta(end_turn),
\* message_stop.
C3_TerminatorFinalizes ==
    (pc = "done" /\ ~failed /\ ~finished) =>
        /\ OpenIndexes(events) = {}
        /\ Len(events) >= 2
        /\ events[Len(events) - 1] = Ev("message_delta", -1, "end_turn")
        /\ events[Len(events)] = Ev("message_stop", -1, "")

\* C4: once a fragment with a finish_reason has been processed, no event is
\* emitted and the accumulator does not change.
C4_NothingAfterFinish ==
    [][finished => (events' = events /\ streamState' = streamState)]_vars

\* C5: the step in which processing a fragment fails writes the error event and
\* nothing else (no content_block_stop for the open block), and leaves the
\* loop; a stream holds no error event before that, and nothing is written
\* after it.
C5_ErrorIsTerminal ==
    [][/\ (failed' /\ ~failed) =>
              /\ events' = Append(events, ErrorEvent)
              /\ Count(events, "error") = 0
              /\ pc' = "done"
       /\ failed => (events' = events /\ pc' = "done")
       /\ ~failed' => Count(events', "error") = 0]_vars

\* a fragment failed while a block was open
C5_Witness ==
    /\ failed
    /\ pc = "done"
    /\ OpenIndexes(events) # {}
    /\ events[Len(events)] = ErrorEvent

(***************************************************************************)
(* translateModelName.  A model identifier is a sequence of characters.    *)
(***************************************************************************)
Digits == {"0", "1", "2", "3", "4", "5", "6", "7", "8", "9"}

\* the number of digits of the date suffix, /-\d{8}$/
DateDigits == 8

AllDigits(s) == \A i \in 1..Len(s) : s[i] \in Digits

\* index of the last "-" of s, 0 when there is none
LastHyphen(s) ==
    IF \E i \in 1..Len(s) : s[i] = "-"
    THEN CHOOSE i \in 1..Len(s) :
            s[i] = "-" /\ \A j \in (i + 1)..Len(s) : s[j] # "-"
    ELSE 0

\* /\[.*\]$/ : the match starts at the first "[" when s ends with "]"
bracketSuffixTest(s) ==
    /\ Len(s) >= 2
    /\ s[Len(s)] = "]"
    /\ \E i \in 1..(Len(s) - 1) : s[i] = "["

StripBracket(s) ==
    IF bracketSuffixTest(s)
    THEN LET first == CHOOSE i \in 1..(Len(s) - 1) :
                         s[i] = "[" /\ \A j \in 1..(i - 1) : s[j] # "["
         IN SubSeq(s, 1, first - 1)
    ELSE s

\* /-\d{8}$/
dateSuffixTest(s) ==
    /\ Len(s) >= DateDigits + 1
    /\ s[Len(s) - DateDigits] = "-"
    /\ AllDigits(SubSeq(s, Len(s) - DateDigits + 1, Len(s)))

StripDate(s) ==
    IF dateSuffixTest(s) THEN SubSeq(s, 1, Len(s) - DateDigits - 1) ELSE s

\* /^(.*-\d+)-(\d+)$/ : the text after the last "-" is digits, and so is the
\* text between the last two "-"
hyphenMinorVersionTest(s) ==
    LET h == LastHyphen(s)
        head == SubSeq(s, 1, h - 1)
        g == LastHyphen(head)
    IN /\ h > 0
       /\ h < Len(s)
       /\ AllDigits(SubSeq(s, h + 1, Len(s)))
       /\ g > 0
       /\ g < Len(head)
       /\ AllDigits(SubSeq(head, g + 1, Len(head)))

HyphenToDot(s) ==
    IF hyphenMinorVersionTest(s)
    THEN [s EXCEPT ![LastHyphen(s)] = "."]
    ELSE s

translateModelName(model) == HyphenToDot(StripDate(StripBracket(model)))

\* the pieces the input identifiers are assembled from
ModelPieces ==
    {<<"g">>, <<"-">>, <<"4">>, <<"[", "m", "]">>, <<".">>,
     <<"-", "2", "0", "2", "5", "0", "5", "1", "4">>}

RECURSIVE Flatten(_)
Flatten(ps) == IF Len(ps) = 0 THEN <<>> ELSE Head(ps) \o Flatten(Tail(ps))

ModelNames == {Flatten(ps) : ps \in SeqsUpTo(ModelPieces, MaxPieces)}

ModelInit ==
    /\ mpc = "idle"
    /\ modelIn \in ModelNames
    /\ modelOut = <<>>
    /\ modelOut2 = <<>>

\* translateToOpenAI: model: translateModelName(payload.model)
Normalize ==
    /\ mpc = "idle"
    /\ modelOut' = translateModelName(modelIn)
    /\ mpc' = "once"
    /\ UNCHANGED <<modelIn, modelOut2>>
    /\ UNCHANGED <<streamVars, reqVars, respVars, conVars, imgVars>>

\* the normalised identifier sent through the translation again
NormalizeAgain ==
    /\ mpc = "once"
    /\ modelOut2' = translateModelName(modelOut)
    /\ mpc' = "twice"
    /\ UNCHANGED <<modelIn, modelOut>>
    /\ UNCHANGED <<streamVars, reqVars, respVars, conVars, imgVars>>

\* C7: normalising a normalised identifier returns it unchanged.
C7_Idempotent == mpc = "twice" => modelOut2 = modelOut

(***************************************************************************)
(* Request translation: Anthropic content blocks and messages.  A content  *)
(* is Str(s), Blocks(bs), Parts(ps) or Null.                               *)
(***************************************************************************)
Blocks(bs) == [kind |-> "blocks", blocks |-> bs]

TextBlock(t) == [type |-> "text", text |-> t]
ThinkingBlock(t) == [type |-> "thinking", thinking |-> t]
ImageBlock(m, d) == [type |-> "image", source |-> [media_type |-> m, data |-> d]]
ToolUseBlock(id, name, input) ==
    [type |-> "tool_use", id |-> id, name |-> name, input |-> input]
ToolResultBlock(id, content) ==
    [type |-> "tool_result", tool_use_id |-> id, content |-> content]

\* a tool input is a JSON object, a set of <<key, value>> pairs
ToolInputs == {{}, {<<"q", 1>>}}

\* JSON.stringify on the tool inputs
JSONStringify(obj) ==
    CASE obj = {} -> "{}"
      [] obj = {<<"q", 1>>} -> "{\"q\":1}"

DataUri(block) ==
    "data:" \o block.source.media_type \o ";base64," \o block.source.data

TextPart(t) == [type |-> "text", text |-> t]
ImagePart(url) == [type |-> "image_url", image_url |-> [url |-> url]]

HasImage(blocks) == \E i \in 1..Len(blocks) : blocks[i].type = "image"

\* the content parts mapContent builds for a block list that holds an image
ContentParts(blocks) ==
    LET kept == SelectSeq(blocks, LAMBDA b : b.type \in {"text", "thinking", "image"})
    IN [i \in 1..Len(kept) |->
           CASE kept[i].type = "text" -> TextPart(kept[i].text)
             [] kept[i].type = "thinking" -> TextPart(kept[i].thinking)
             [] kept[i].type = "image" -> ImagePart(DataUri(kept[i]))]

mapContent(content) ==
    IF content.kind = "string" THEN content
    ELSE IF content.kind # "blocks" THEN Null
    ELSE IF ~HasImage(content.blocks)
    THEN LET kept == SelectSeq(content.blocks,
                               LAMBDA b : b.type = "text" \/ b.type = "thinking")
         IN Str(Join([i \in 1..Len(kept) |->
                         IF kept[i].type = "text" THEN kept[i].text
                         ELSE kept[i].thinking],
                     "\n\n"))
    ELSE Parts(ContentParts(content.blocks))

mapToolResultContent(content) ==
    IF content.kind = "string" THEN content
    ELSE IF ~HasImage(content.blocks)
    THEN LET kept == SelectSeq(content.blocks, LAMBDA b : b.type = "text")
         IN Str(Join([i \in 1..Len(kept) |-> kept[i].text], "\n\n"))
    ELSE Parts([i \in 1..Len(content.blocks) |->
                   IF content.blocks[i].type = "text"
                   THEN TextPart(content.blocks[i].text)
                   ELSE ImagePart(DataUri(content.blocks[i]))])

ToolMessage(block) ==
    [role |-> "tool", tool_call_id |-> block.tool_use_id,
     content |-> mapToolResultContent(block.content)]

Msg(role, content) == [role |-> role, content |-> content]

\* handleUserMessage with the user-role message pushed before the tool results
UserMessageFirst(message) ==
    LET toolResultBlocks ==
            SelectSeq(message.content.blocks, LAMBDA b : b.type = "tool_result")
        otherBlocks ==
            SelectSeq(message.content.blocks, LAMBDA b : b.type # "tool_result")
    IN IF message.content.kind = "blocks"
       THEN (IF Len(otherBlocks) > 0
             THEN <<Msg("user", mapContent(Blocks(otherBlocks)))>>
             ELSE <<>>)
            \o [i \in 1..Len(toolResultBlocks) |-> ToolMessage(toolResultBlocks[i])]
       ELSE <<Msg("user", mapContent(message.content))>>

handleUserMessage(message) ==
    LET toolResultBlocks ==
            SelectSeq(message.content.blocks, LAMBDA b : b.type = "tool_result")
        otherBlocks ==
            SelectSeq(message.content.blocks, LAMBDA b : b.type # "tool_result")
    IN IF message.content.kind = "blocks"
       THEN [i \in 1..Len(toolResultBlocks) |-> ToolMessage(toolResultBlocks[i])]
            \o (IF Len(otherBlocks) > 0
                THEN <<Msg("user", mapContent(Blocks(otherBlocks)))>>
                ELSE <<>>)
       ELSE <<Msg("user", mapContent(message.content))>>

handleAssistantMessage(message) ==
    IF message.content.kind # "blocks"
    THEN <<Msg("assistant", mapContent(message.content))>>
    ELSE LET bs == message.content.blocks
             toolUseBlocks == SelectSeq(bs, LAMBDA b : b.type = "tool_use")
             textBlocks == SelectSeq(bs, LAMBDA b : b.type = "text")
             thinkingBlocks == SelectSeq(bs, LAMBDA b : b.type = "thinking")
             allTextContent ==
                 Join([i \in 1..Len(textBlocks) |-> textBlocks[i].text]
                          \o [i \in 1..Len(thinkingBlocks) |->
                                 thinkingBlocks[i].thinking],
                      "\n\n")
         IN IF Len(toolUseBlocks) > 0
            THEN <<[role |-> "assistant",
                    content |-> IF allTextContent = "" THEN Null
                                ELSE Str(allTextContent),
                    tool_calls |->
                        [i \in 1..Len(toolUseBlocks) |->
                            [id |-> toolUseBlocks[i].id,
                             type |-> "function",
                             function |->
                                 [name |-> toolUseBlocks[i].name,
                                  arguments |->
                                      JSONStringify(toolUseBlocks[i].input)]]]]>>
            ELSE <<Msg("assistant", mapContent(message.content))>>

\* the lines that hold one of COPILOT_RESERVED_KEYWORDS, whatever the letter case
ReservedLines ==
    {"x-anthropic-billing-header: cc=1", "<X-Anthropic-Billing-Header>v</X>"}

RECURSIVE TrimLeft(_)
TrimLeft(lines) ==
    IF Len(lines) > 0 /\ Head(lines) = "" THEN TrimLeft(Tail(lines)) ELSE lines

RECURSIVE TrimRight(_)
TrimRight(lines) ==
    IF Len(lines) > 0 /\ lines[Len(lines)] = ""
    THEN TrimRight(SubSeq(lines, 1, Len(lines) - 1))
    ELSE lines

\* the text is held as its lines (text.split("\n")); trim() drops the empty
\* lines at both ends
sanitizeSystemPrompt(lines) ==
    Join(TrimRight(TrimLeft(SelectSeq(lines, LAMBDA l : l \notin ReservedLines))),
         "\n")

RECURSIVE JoinSegments(_)
\* system.map((block) => block.text).join("\n\n"), as lines
JoinSegments(segs) ==
    IF Len(segs) = 0 THEN <<"">>
    ELSE IF Len(segs) = 1 THEN Head(segs)
    ELSE Head(segs) \o <<"">> \o JoinSegments(Tail(segs))

handleSystemPrompt(system) ==
    IF system.kind = "none" THEN <<>>
    ELSE LET content ==
                 IF system.kind = "string" THEN sanitizeSystemPrompt(system.lines)
                 ELSE sanitizeSystemPrompt(JoinSegments(system.segments))
         IN IF content = "" THEN <<>> ELSE <<Msg("system", Str(content))>>

translateAnthropicMessagesToOpenAI(anthropicMessages, system) ==
    handleSystemPrompt(system)
        \o FlatMap(anthropicMessages,
                   [m \in {anthropicMessages[i] : i \in 1..Len(anthropicMessages)} |->
                       IF m.role = "user" THEN handleUserMessage(m)
                       ELSE handleAssistantMessage(m)])

(***************************************************************************)
(* The requests of the model: one-turn requests over every block kind, and *)
(* requests of several turns over tool results, tool uses and text.        *)
(***************************************************************************)
NoSystem == [kind |-> "none"]

Systems ==
    {NoSystem,
     [kind |-> "string", lines |-> <<"be brief">>],
     [kind |-> "string", lines |-> <<"x-anthropic-billing-header: cc=1", "be brief">>],
     [kind |-> "string", lines |-> <<"<X-Anthropic-Billing-Header>v</X>">>],
     [kind |-> "blocks",
      segments |-> <<<<"x-anthropic-billing-header: cc=1">>, <<"be brief">>>>]}

UserBlocks ==
    {TextBlock(""), TextBlock("a"), TextBlock("b"),
     ImageBlock("image/png", "AAAA"),
     ToolResultBlock("t1", Str("r")),
     ToolResultBlock("t1", Str("")),
     ToolResultBlock("t2", Blocks(<<>>)),
     ToolResultBlock("t2", Blocks(<<TextBlock("r"), TextBlock("s")>>)),
     ToolResultBlock("t2", Blocks(<<TextBlock("r"), ImageBlock("image/png", "AAAA")>>))}

AssistantBlocks ==
    {TextBlock(""), TextBlock("a"), TextBlock("b"),
     ThinkingBlock(""), ThinkingBlock("t"),
     ToolUseBlock("t1", "search", {}),
     ToolUseBlock("t2", "fetch", {<<"q", 1>>})}

ContentMessages ==
    {[role |-> "user", content |-> c] :
        c \in {Str(""), Str("a")}
                \cup {Blocks(bs) : bs \in SeqsUpTo(UserBlocks, MaxBlocks)}}
    \cup
    {[role |-> "assistant", content |-> c] :
        c \in {Str(""), Str("a")}
                \cup {Blocks(bs) : bs \in SeqsUpTo(AssistantBlocks, MaxBlocks)}}

\* the turns of the requests of several turns
TurnMessages ==
    {[role |-> "user", content |-> c] :
        c \in {Str("a"),
               Blocks(<<TextBlock("a")>>),
               Blocks(<<ToolResultBlock("t1", Str("r"))>>),
               Blocks(<<ToolResultBlock("t1", Str("r")), TextBlock("a")>>),
               Blocks(<<TextBlock("a"), ToolResultBlock("t1", Str("r"))>>),
               Blocks(<<ToolResultBlock("t2", Str("r")),
                        ToolResultBlock("t1", Str("r"))>>),
               Blocks(<<TextBlock("a"), ToolResultBlock("t1", Str("r")),
                        TextBlock("b"), ToolResultBlock("t2", Str("r"))>>)}}
    \cup
    {[role |-> "assistant", content |-> c] :
        c \in {Str("x"), Blocks(<<ToolUseBlock("t1", "search", {})>>)}}

Requests ==
    {[system |-> s, messages |-> <<m>>] : s \in Systems, m \in ContentMessages}
    \cup
    {[system |-> s, messages |-> ms] :
        s \in {NoSystem, [kind |-> "string", lines |-> <<"be brief">>]},
        ms \in SeqsUpTo(TurnMessages, MaxTurns)}

ReqInit ==
    /\ rpc = "idle"
    /\ request \in Requests
    /\ upstream = <<>>

\* translateToOpenAI: messages
TranslateRequest ==
    /\ rpc = "idle"
    /\ upstream' = translateAnthropicMessagesToOpenAI(request.messages, request.system)
    /\ rpc' = "translated"
    /\ UNCHANGED request
    /\ UNCHANGED <<streamVars, modelVars, respVars, conVars, imgVars>>

(***************************************************************************)
(* The upstream messages of each turn.                                     *)
(***************************************************************************)
ToolResultsOf(m) == SelectSeq(m.content.blocks, LAMBDA b : b.type = "tool_result")
RemainderOf(m) == SelectSeq(m.content.blocks, LAMBDA b : b.type # "tool_result")

IsSplitTurn(m) == m.role = "user" /\ m.content.kind = "blocks"

\* the number of upstream messages a turn is to give
TurnCount(m) ==
    IF IsSplitTurn(m)
    THEN Len(ToolResultsOf(m)) + (IF Len(RemainderOf(m)) > 0 THEN 1 ELSE 0)
    ELSE 1

SystemCount == Len(SelectSeq(upstream, LAMBDA m : m.role = "system"))

RECURSIVE TurnOffset(_)
\* the number of upstream messages before those of turn k
TurnOffset(k) ==
    IF k = 1 THEN SystemCount
    ELSE TurnOffset(k - 1) + TurnCount(request.messages[k - 1])

\* the upstream messages at the place of turn k
TurnSlice(k) ==
    SubSeq(upstream, TurnOffset(k) + 1, TurnOffset(k) + TurnCount(request.messages[k]))

\* C6: a user turn with a block list gives one tool-role message per tool_result
\* block, with the block's tool_use_id, all before the user-role message of the
\* remaining blocks, which is left out when no block remains; the upstream list
\* keeps the order of the turns.
C6_ToolResultsFirst ==
    rpc = "translated" =>
        LET n == Len(request.messages)
        IN /\ Len(upstream) = TurnOffset(n + 1)
           /\ \A j \in 1..SystemCount : upstream[j].role = "system"
           /\ \A k \in 1..n :
                 LET m == request.messages[k]
                     out == TurnSlice(k)
                 IN IF IsSplitTurn(m)
                    THEN LET results == ToolResultsOf(m)
                             rest == RemainderOf(m)
                         IN /\ \A i \in 1..Len(results) :
                                  /\ out[i].role = "tool"
                                  /\ out[i].tool_call_id = results[i].tool_use_id
                            /\ Len(rest) > 0 =>
                                  /\ out[Len(out)].role = "user"
                                  /\ out[Len(out)].content = mapContent(Blocks(rest))
                            /\ Len(rest) = 0 => Len(out) = Len(results)
                    ELSE Len(out) = 1 /\ out[1].role = m.role

\* a later turn holds text before two tool results, after a system message and
\* another turn
C6_Witness ==
    /\ rpc = "translated"
    /\ Len(request.messages) = 2
    /\ SystemCount = 1
    /\ IsSplitTurn(request.messages[2])
    /\ Len(ToolResultsOf(request.messages[2])) = 2
    /\ request.messages[2].content.blocks[1].type = "text"
    /\ Len(upstream) >= 5

\* the texts of the text and thinking blocks, in the order of the blocks
TextsInOrder(blocks) ==
    LET kept == SelectSeq(blocks, LAMBDA b : b.type \in {"text", "thinking"})
    IN [i \in 1..Len(kept) |->
           IF kept[i].type = "text" THEN kept[i].text ELSE kept[i].thinking]

\* C8: the content of a message whose block list holds no image is the text of
\* its text and thinking blocks joined by a blank line, in the order of the
\* blocks (null is taken for the empty string here).
C8_JoinedInOrder ==
    rpc = "translated" =>
        \A k \in 1..Len(request.messages) :
            LET m == request.messages[k]
                out == TurnSlice(k)
            IN (m.content.kind = "blocks" /\ ~HasImage(m.content.blocks)
                    /\ Len(out) > 0 /\ out[Len(out)].role = m.role) =>
                   LET expected ==
                           Join(TextsInOrder(
                                    IF m.role = "user" THEN RemainderOf(m)
                                    ELSE m.content.blocks),
                                "\n\n")
                   IN \/ out[Len(out)].content = Str(expected)
                      \/ (expected = "" /\ out[Len(out)].content = Null)

\* C9: no upstream message has the empty string as its content.
C9_NeverEmptyString ==
    rpc = "translated" =>
        \A i \in 1..Len(upstream) : upstream[i].content # Str("")

(***************************************************************************)
(* Response translation: translateToAnthropic.                             *)
(***************************************************************************)
\* the JSON texts that parse
JSONTexts == {"{}", "{\"q\":1}"}

\* JSON.parse on a tool call's arguments; it throws outside JSONTexts
JSONParse(text) ==
    CASE text = "{}" -> {}
      [] text = "{\"q\":1}" -> {<<"q", 1>>}

getAnthropicTextBlocks(messageContent) ==
    IF messageContent.kind = "string"
    THEN <<TextBlock(messageContent.s)>>
    ELSE IF messageContent.kind = "parts"
    THEN LET kept == SelectSeq(messageContent.parts, LAMBDA part : part.type = "text")
         IN [i \in 1..Len(kept) |-> TextBlock(kept[i].text)]
    ELSE <<>>

\* toolCalls is <<>> when the field is absent
getAnthropicToolUseBlocks(toolCalls) ==
    [i \in 1..Len(toolCalls) |->
        ToolUseBlock(toolCalls[i].id, toolCalls[i].function.name,
                     JSONParse(toolCalls[i].function.arguments))]

\* whether some JSON.parse of the response's tool calls throws
ParseThrows(resp) ==
    \E i \in 1..Len(resp.choices) :
        \E j \in 1..Len(resp.choices[i].message.tool_calls) :
            resp.choices[i].message.tool_calls[j].function.arguments \notin JSONTexts

\* the update of stopReason in the loop body
NextStopReason(stopReason, choice) ==
    IF choice.finish_reason = "tool_calls" \/ stopReason = "stop"
    THEN choice.finish_reason
    ELSE stopReason

RECURSIVE MergeChoices(_, _)
\* the loop over response.choices; acc = [text, tools, stopReason]
MergeChoices(acc, choices) ==
    IF Len(choices) = 0 THEN acc
    ELSE LET choice == Head(choices)
         IN MergeChoices(
                [text |-> acc.text \o getAnthropicTextBlocks(choice.message.content),
                 tools |-> acc.tools
                             \o getAnthropicToolUseBlocks(choice.message.tool_calls),
                 stopReason |-> NextStopReason(acc.stopReason, choice)],
                Tail(choices))

\* the other order of the merged lists
ToolsFirst(acc) == acc.tools \o acc.text

\* the blocks of the response from the merged lists
ResponseContent(acc) == acc.text \o acc.tools

Usage(u) ==
    IF u.kind = "none"
    THEN [input_tokens |-> 0, output_tokens |-> 0]
    ELSE IF u.cached = -1
    THEN [input_tokens |-> u.prompt_tokens, output_tokens |-> u.completion_tokens]
    ELSE [input_tokens |-> u.prompt_tokens - u.cached,
          output_tokens |-> u.completion_tokens,
          cache_read_input_tokens |-> u.cached]

translateToAnthropic(resp) ==
    IF ParseThrows(resp) THEN [ok |-> FALSE]
    ELSE LET acc ==
                 MergeChoices(
                     [text |-> <<>>, tools |-> <<>>,
                      stopReason |-> IF Len(resp.choices) > 0
                                     THEN resp.choices[1].finish_reason
                                     ELSE "null"],
                     resp.choices)
         IN [ok |-> TRUE,
             type |-> "message",
             role |-> "assistant",
             content |-> ResponseContent(acc),
             stop_reason |-> mapOpenAIStopReasonToAnthropic(acc.stopReason),
             usage |-> Usage(resp.usage)]

ChoiceFinishReasons == {"stop", "length", "tool_calls", "content_filter"}

ToolCall(id, name, arguments) ==
    [id |-> id, type |-> "function",
     function |-> [name |-> name, arguments |-> arguments]]

NoUsage == [kind |-> "none"]

\* cached is -1 when prompt_tokens_details is absent
Usages ==
    {NoUsage,
     [kind |-> "usage", prompt_tokens |-> 9, completion_tokens |-> 4, cached |-> -1],
     [kind |-> "usage", prompt_tokens |-> 9, completion_tokens |-> 4, cached |-> 3]}

\* the choices of the responses of several choices
MergedChoices ==
    [finish_reason : ChoiceFinishReasons,
     message : [content : {Null, Str("a"), Str("b")},
                tool_calls : {<<>>, <<ToolCall("c1", "search", "{\"q\":1}")>>}]]

\* the choices of the responses of one choice
SingleChoices ==
    [finish_reason : ChoiceFinishReasons,
     message : [content : {Null, Str("a"),
                           Parts(<<TextPart("a"), ImagePart("data:image/png;base64,AAAA"),
                                   TextPart("b")>>)},
                tool_calls : {<<>>,
                              <<ToolCall("c1", "search", "{}")>>,
                              <<ToolCall("c1", "search", "{}"),
                                ToolCall("c2", "fetch", "{\"q\":1}")>>,
                              <<ToolCall("c1", "search", "{")>>}]]

Responses ==
    {[choices |-> <<c>>, usage |-> u] : c \in SingleChoices, u \in Usages}
    \cup
    {[choices |-> cs, usage |-> NoUsage] : cs \in SeqsUpTo(MergedChoices, MaxChoices)}

RespInit ==
    /\ spc = "idle"
    /\ response \in Responses
    /\ anthropic = [ok |-> FALSE]

\* handleCompletion, the non-streaming branch: translateToAnthropic(response)
TranslateResponse ==
    /\ spc = "idle"
    /\ anthropic' = translateToAnthropic(response)
    /\ spc' = "translated"
    /\ UNCHANGED response
    /\ UNCHANGED <<streamVars, reqVars, modelVars, conVars, imgVars>>

\* C10: the stop reason is that of tool_calls when a choice reports tool_calls,
\* and otherwise that of the first choice.
C10_StopReason ==
    (spc = "translated" /\ anthropic.ok /\ Len(response.choices) >= 1) =>
        anthropic.stop_reason =
            IF \E i \in 1..Len(response.choices) :
                   response.choices[i].finish_reason = "tool_calls"
            THEN mapOpenAIStopReasonToAnthropic("tool_calls")
            ELSE mapOpenAIStopReasonToAnthropic(response.choices[1].finish_reason)

RECURSIVE ChoiceTexts(_)
ChoiceTexts(choices) ==
    IF Len(choices) = 0 THEN <<>>
    ELSE getAnthropicTextBlocks(Head(choices).message.content)
             \o ChoiceTexts(Tail(choices))

RECURSIVE ChoiceTools(_)
ChoiceTools(choices) ==
    IF Len(choices) = 0 THEN <<>>
    ELSE getAnthropicToolUseBlocks(Head(choices).message.tool_calls)
             \o ChoiceTools(Tail(choices))

RECURSIVE ChoiceBlocks(_)
ChoiceBlocks(choices) ==
    IF Len(choices) = 0 THEN <<>>
    ELSE getAnthropicTextBlocks(Head(choices).message.content)
             \o getAnthropicToolUseBlocks(Head(choices).message.tool_calls)
             \o ChoiceBlocks(Tail(choices))

\* C11 as stated: the content of the response is the concatenation, in choice
\* order, of each choice's blocks (its text blocks, then its tool_use blocks),
\* so every block of an earlier choice comes before every block of a later one.
C11_ChoiceOrder ==
    (spc = "translated" /\ anthropic.ok) =>
        anthropic.content = ChoiceBlocks(response.choices)

\* C11 as amended: the content of the response is the text blocks of all the
\* choices in choice order, followed by the tool_use blocks of all the choices
\* in choice order; no block is lost or duplicated.
C11_TextsThenTools ==
    (spc = "translated" /\ anthropic.ok) =>
        anthropic.content =
            ChoiceTexts(response.choices) \o ChoiceTools(response.choices)

\* a translated response whose first choice calls a tool and whose second
\* choice carries text
C11_Witness ==
    /\ spc = "translated"
    /\ anthropic.ok
    /\ Len(response.choices) >= 2
    /\ response.choices[1].message.tool_calls # <<>>
    /\ response.choices[2].message.content = Str("a")
    /\ Len(anthropic.content) >= 2
    /\ anthropic.content[1].type = "text"

(***************************************************************************)
(* Concurrent streams.  Every request runs its own streamSSE callback; the *)
(* callbacks interleave at their awaits, one raw record at a time.         *)
(***************************************************************************)
StreamIds == {1, 2}

\* the records the concurrent streams draw from
ConcurrentRecords ==
    {raw \in RawRecords :
        \/ raw.kind \in {"empty", "invalid"}
        \/ /\ raw.kind = "json"
           /\ raw.chunk \in
                  {[content |-> TRUE, tool_calls |-> <<>>, finish_reason |-> "null"],
                   [content |-> FALSE,
                    tool_calls |-> <<[index |-> 0, hasIdName |-> TRUE,
                                      hasArgs |-> FALSE]>>,
                    finish_reason |-> "null"],
                   [content |-> FALSE,
                    tool_calls |-> <<[index |-> 0, hasIdName |-> FALSE,
                                      hasArgs |-> TRUE]>>,
                    finish_reason |-> "null"],
                   [content |-> FALSE, tool_calls |-> <<>>,
                    finish_reason |-> "stop"]}}

\* one accumulator for all the streams
SharedAccumulator(s) == 1
\* const streamState = {...} inside the callback: the object of stream s
AccumulatorOf(s) == s
StreamStateOf(s) == accs[AccumulatorOf(s)]

ConInit ==
    /\ cpc = [s \in StreamIds |-> "start"]
    /\ accs = [s \in StreamIds |-> InitStreamState]
    /\ cevents = [s \in StreamIds |-> <<>>]
    /\ cread = [s \in StreamIds |-> <<>>]
    /\ clast = 0
    /\ cturns = 0

\* history of the order in which the streams process their records
Processed(s) ==
    /\ clast' = s
    /\ cturns' = IF clast \notin {0, s} /\ cturns < 2 THEN cturns + 1 ELSE cturns

\* the callback starts: the accumulator is created and the ping is written
ConOpen(s) ==
    /\ cpc[s] = "start"
    /\ accs' = [accs EXCEPT ![AccumulatorOf(s)] = InitStreamState]
    /\ cevents' = [cevents EXCEPT ![s] = @ \o PingEvents]
    /\ cpc' = [cpc EXCEPT ![s] = "loop"]
    /\ UNCHANGED <<cread, clast, cturns>>
    /\ UNCHANGED <<streamVars, reqVars, modelVars, respVars, imgVars>>

\* rawEvent.data === "[DONE]": break
ConDone(s) ==
    /\ cpc[s] = "loop"
    /\ cpc' = [cpc EXCEPT ![s] = "done"]
    /\ UNCHANGED <<accs, cevents, cread, clast, cturns>>
    /\ UNCHANGED <<streamVars, reqVars, modelVars, respVars, imgVars>>

\* !rawEvent.data: continue
ConEmpty(s) ==
    /\ cpc[s] = "loop"
    /\ Len(cread[s]) < MaxStreamReads
    /\ \E raw \in ConcurrentRecords :
          /\ raw.kind = "empty"
          /\ cread' = [cread EXCEPT ![s] = Append(@, raw)]
    /\ Processed(s)
    /\ UNCHANGED <<cpc, accs, cevents>>
    /\ UNCHANGED <<streamVars, reqVars, modelVars, respVars, imgVars>>

\* the try block ran to its end
ConChunk(s) ==
    /\ cpc[s] = "loop"
    /\ Len(cread[s]) < MaxStreamReads
    /\ \E raw \in ConcurrentRecords :
          /\ raw.kind \in {"json", "invalid"}
          /\ LET r == ProcessRecord(raw, StreamStateOf(s))
             IN /\ r.ok
                /\ cevents' = [cevents EXCEPT ![s] = @ \o r.ev]
                /\ accs' = [accs EXCEPT ![AccumulatorOf(s)] = r.st]
          /\ cread' = [cread EXCEPT ![s] = Append(@, raw)]
    /\ Processed(s)
    /\ UNCHANGED cpc
    /\ UNCHANGED <<streamVars, reqVars, modelVars, respVars, imgVars>>

\* the try block threw
ConError(s) ==
    /\ cpc[s] = "loop"
    /\ Len(cread[s]) < MaxStreamReads
    /\ \E raw \in ConcurrentRecords :
          /\ raw.kind \in {"json", "invalid"}
          /\ LET r == ProcessRecord(raw, StreamStateOf(s))
             IN /\ ~r.ok
                /\ accs' = [accs EXCEPT ![AccumulatorOf(s)] = r.st]
          /\ cread' = [cread EXCEPT ![s] = Append(@, raw)]
    /\ cevents' = [cevents EXCEPT ![s] = @ \o CatchEvents]
    /\ cpc' = [cpc EXCEPT ![s] = CatchNext]
    /\ Processed(s)
    /\ UNCHANGED <<streamVars, reqVars, modelVars, respVars, imgVars>>

StreamsOpen == \E s \in StreamIds : ConOpen(s)
StreamsDone == \E s \in StreamIds : ConDone(s)
StreamsEmpty == \E s \in StreamIds : ConEmpty(s)
StreamsChunk == \E s \in StreamIds : ConChunk(s)
StreamsError == \E s \in StreamIds : ConError(s)

\* the callback run alone over the records raws, from the state run
RECURSIVE RunAlone(_, _)
RunAlone(run, raws) ==
    IF Len(raws) = 0 \/ run.pc # "loop" THEN run
    ELSE LET raw == Head(raws)
             r == ProcessRecord(raw, run.st)
         IN RunAlone(
                IF raw.kind = "empty" THEN run
                ELSE IF r.ok
                THEN [pc |-> "loop", st |-> r.st, ev |-> run.ev \o r.ev]
                ELSE [pc |-> CatchNext, st |-> r.st, ev |-> run.ev \o CatchEvents],
                Tail(raws))

\* a stream that ran alone and took the records raws
Alone(raws) ==
    RunAlone([pc |-> "loop", st |-> InitStreamState, ev |-> PingEvents], raws)

\* C12: under every interleaving of the streams, the events a stream has
\* written and the state of its accumulator are those of the stream run alone
\* over its own records.
C12_StreamsIsolated ==
    \A s \in StreamIds :
        IF cpc[s] \in {"loop", "done"}
        THEN /\ cevents[s] = Alone(cread[s]).ev
             /\ StreamStateOf(s) = Alone(cread[s]).st
        ELSE cevents[s] = <<>>

\* two streams whose records were processed alternately, each with a block
\* open in its own accumulator
C12_Witness ==
    /\ cturns = 2
    /\ \A s \in StreamIds :
          /\ cpc[s] = "loop"
          /\ Len(cread[s]) >= 1
          /\ StreamStateOf(s).contentBlockOpen
    /\ StreamStateOf(1) # StreamStateOf(2)

(***************************************************************************)
(* createChatCompletions and resolveExternalImages                         *)
(* (services/copilot/create-chat-completions.ts).                          *)
(***************************************************************************)
StartsWith(s, prefix) ==
    Len(s) >= Len(prefix) /\ SubSeq(s, 1, Len(prefix)) = prefix

ExternalUrls == {"https://a.test/1.png", "http://b.test/2"}
InlineUrl == "data:image/gif;base64,R0lG"

\* an image part that carries image_url.detail
DetailedImagePart(url) ==
    [type |-> "image_url", image_url |-> [url |-> url, detail |-> "high"]]

\* what fetch(url) gives: a rejection, a response that is not ok, or an ok
\* response with or without a content-type header
FetchOutcomes ==
    {[kind |-> "rejected"], [kind |-> "not_ok"],
     [kind |-> "ok", contentType |-> "image/png", base64 |-> "iVBO"],
     [kind |-> "ok", contentType |-> "none", base64 |-> "/9j/"]}

fetchImageAsBase64(url, w) ==
    LET fetched == w[url]
    IN IF fetched.kind # "ok" THEN [ok |-> FALSE]
       ELSE LET contentType == IF fetched.contentType = "none"
                               THEN "image/jpeg"
                               ELSE fetched.contentType
            IN [ok |-> TRUE,
                url |-> "data:" \o contentType \o ";base64," \o fetched.base64]

IsExternalImage(part) ==
    part.type = "image_url" /\ ~StartsWith(part.image_url.url, "data:")

hasExternalUrls(p) ==
    \E i \in 1..Len(p.messages) :
        /\ p.messages[i].content.kind = "parts"
        /\ \E j \in 1..Len(p.messages[i].content.parts) :
               IsExternalImage(p.messages[i].content.parts[j])

\* a part whose fetch failed loses its URL
FetchErrorDropsUrl(part) == [part EXCEPT !.image_url.url = ""]
\* the catch block: warn and return the part
OnFetchError(part) == part

\* the callback of msg.content.map
resolvePart(part, w) ==
    IF ~IsExternalImage(part) THEN part
    ELSE LET fetched == fetchImageAsBase64(part.image_url.url, w)
         IN IF fetched.ok
            THEN [part EXCEPT !.image_url.url = fetched.url]
            ELSE OnFetchError(part)

\* the callback of payload.messages.map
resolveMessage(msg, w) ==
    IF msg.content.kind # "parts" THEN msg
    ELSE [msg EXCEPT !.content =
              Parts([j \in 1..Len(msg.content.parts) |->
                        resolvePart(msg.content.parts[j], w)])]

resolveExternalImages(p, w) ==
    IF ~hasExternalUrls(p) THEN p
    ELSE [p EXCEPT !.messages =
              [i \in 1..Len(p.messages) |-> resolveMessage(p.messages[i], w)]]

enableVision(p) ==
    \E i \in 1..Len(p.messages) :
        /\ p.messages[i].content.kind = "parts"
        /\ \E j \in 1..Len(p.messages[i].content.parts) :
               p.messages[i].content.parts[j].type = "image_url"

isAgentCall(p) ==
    \E i \in 1..Len(p.messages) : p.messages[i].role \in {"assistant", "tool"}

NotSent == [sent |-> FALSE]

\* the POST to /chat/completions
UpstreamRequest(resolvedPayload) ==
    [sent |-> TRUE,
     body |-> resolvedPayload,
     vision |-> enableVision(resolvedPayload),
     initiator |-> IF isAgentCall(resolvedPayload) THEN "agent" ELSE "user"]

ImageParts ==
    {TextPart("t"), ImagePart(InlineUrl)}
        \cup {DetailedImagePart(u) : u \in ExternalUrls}

\* one message whose content is null, a string or a list of parts
PartMessages ==
    {Msg("user", c) : c \in {Null, Str("hi")}}
        \cup {Msg("user", Parts(ps)) : ps \in SeqsUpTo(ImageParts, MaxBlocks)}

\* the messages of the payloads of several messages
TurnPartMessages ==
    {Msg("assistant", Str("ok")),
     Msg("user", Parts(<<TextPart("t"), DetailedImagePart("https://a.test/1.png")>>)),
     Msg("user", Parts(<<DetailedImagePart("http://b.test/2"),
                         ImagePart(InlineUrl)>>))}

Payloads ==
    {[messages |-> <<msg>>] : msg \in PartMessages}
        \cup {[messages |-> ms] : ms \in SeqsUpTo(TurnPartMessages, MaxTurns)}

ImgInit ==
    /\ ipc = "idle"
    /\ payload \in Payloads
    /\ web \in [ExternalUrls -> FetchOutcomes]
    /\ token \in BOOLEAN
    /\ sent = NotSent

\* if (!state.copilotToken) throw
CreateNoToken ==
    /\ ipc = "idle"
    /\ ~token
    /\ ipc' = "threw"
    /\ UNCHANGED <<payload, web, token, sent>>
    /\ UNCHANGED <<streamVars, reqVars, modelVars, respVars, conVars>>

\* the images are resolved, the request is posted, and the upstream answers
\* with a response that is ok or not
CreateChatCompletions ==
    /\ ipc = "idle"
    /\ token
    /\ sent' = UpstreamRequest(resolveExternalImages(payload, web))
    /\ \E ok \in BOOLEAN : ipc' = IF ok THEN "returned" ELSE "http_error"
    /\ UNCHANGED <<payload, web, token>>
    /\ UNCHANGED <<streamVars, reqVars, modelVars, respVars, conVars>>

FetchFails(url) == web[url].kind # "ok"

\* the part q sent for the part p of the payload
PartResolved(p, q) ==
    IF p.type # "image_url" \/ StartsWith(p.image_url.url, "data:")
    THEN q = p
    ELSE IF FetchFails(p.image_url.url)
    THEN q = p
    ELSE /\ q.type = "image_url"
         /\ q.image_url.detail = p.image_url.detail
         /\ StartsWith(q.image_url.url, "data:image/")
         /\ q.image_url.url # p.image_url.url

\* C13: a failed fetch of an image does not fail the request: the request is
\* sent, the part whose fetch failed is sent as it was, with its original URL,
\* and every other part is at its position: text parts and data-URI images
\* unchanged, fetched images as data URIs.
C13_FailedFetchPassesThrough ==
    /\ (ipc = "threw") => ~token
    /\ (ipc \in {"returned", "http_error"}) =>
          /\ sent.sent
          /\ Len(sent.body.messages) = Len(payload.messages)
          /\ \A i \in 1..Len(payload.messages) :
                LET msg == payload.messages[i]
                    out == sent.body.messages[i]
                IN /\ out.role = msg.role
                   /\ out.content.kind = msg.content.kind
                   /\ IF msg.content.kind # "parts" THEN out = msg
                      ELSE /\ Len(out.content.parts) = Len(msg.content.parts)
                           /\ \A j \in 1..Len(msg.content.parts) :
                                  PartResolved(msg.content.parts[j],
                                               out.content.parts[j])

\* a request sent with a text part, an image whose fetch failed and an image
\* that was fetched, in this order
C13_Witness ==
    /\ ipc = "returned"
    /\ sent.sent
    /\ Len(payload.messages) = 1
    /\ payload.messages[1].content.kind = "parts"
    /\ Len(payload.messages[1].content.parts) = 3
    /\ payload.messages[1].content.parts[1].type = "text"
    /\ IsExternalImage(payload.messages[1].content.parts[2])
    /\ FetchFails(payload.messages[1].content.parts[2].image_url.url)
    /\ IsExternalImage(payload.messages[1].content.parts[3])
    /\ ~FetchFails(payload.messages[1].content.parts[3].image_url.url)
    /\ sent.body.messages[1].content.parts[2] = payload.messages[1].content.parts[2]
    /\ sent.body.messages[1].content.parts[3] # payload.messages[1].content.parts[3]

(***************************************************************************)
(* The specifications.  Each part starts from its own inputs; the other    *)
(* parts stay idle.                                                        *)
(***************************************************************************)
StreamIdle ==
    pc = "idle" /\ streamState = InitStreamState /\ events = <<>> /\ nread = 0
        /\ finished = FALSE /\ failed = FALSE
ReqIdle == rpc = "off" /\ request = [system |-> NoSystem, messages |-> <<>>] /\ upstream = <<>>
ModelIdle == mpc = "off" /\ modelIn = <<>> /\ modelOut = <<>> /\ modelOut2 = <<>>
RespIdle ==
    spc = "off" /\ response = [choices |-> <<>>, usage |-> NoUsage]
        /\ anthropic = [ok |-> FALSE]

ConIdle ==
    /\ cpc = [s \in StreamIds |-> "off"]
    /\ accs = [s \in StreamIds |-> InitStreamState]
    /\ cevents = [s \in StreamIds |-> <<>>]
    /\ cread = [s \in StreamIds |-> <<>>]
    /\ clast = 0
    /\ cturns = 0

ImgIdle ==
    /\ ipc = "off"
    /\ payload = [messages |-> <<>>]
    /\ web = [u \in ExternalUrls |-> [kind |-> "rejected"]]
    /\ token = FALSE
    /\ sent = NotSent

\* one stream
Init == StreamInit /\ ReqIdle /\ ModelIdle /\ RespIdle /\ ConIdle /\ ImgIdle
Next == StreamOpen \/ RecvDone \/ RecvEmpty \/ RecvChunk \/ RecvError
Spec == Init /\ [][Next]_vars

\* one request translation
InitReq == StreamIdle /\ ReqInit /\ ModelIdle /\ RespIdle /\ ConIdle /\ ImgIdle
NextReq == TranslateRequest
SpecReq == InitReq /\ [][NextReq]_vars

\* one model-name translation
InitModel == StreamIdle /\ ReqIdle /\ ModelInit /\ RespIdle /\ ConIdle /\ ImgIdle
NextModel == Normalize \/ NormalizeAgain
SpecModel == InitModel /\ [][NextModel]_vars

\* one response translation
InitResp == StreamIdle /\ ReqIdle /\ ModelIdle /\ RespInit /\ ConIdle /\ ImgIdle
NextResp == TranslateResponse
SpecResp == InitResp /\ [][NextResp]_vars

\* concurrent streams
InitCon == StreamIdle /\ ReqIdle /\ ModelIdle /\ RespIdle /\ ConInit /\ ImgIdle
NextCon == StreamsOpen \/ StreamsDone \/ StreamsEmpty \/ StreamsChunk \/ StreamsError
SpecCon == InitCon /\ [][NextCon]_vars

\* one call of createChatCompletions
InitImg == StreamIdle /\ ReqIdle /\ ModelIdle /\ RespIdle /\ ConIdle /\ ImgInit
NextImg == CreateNoToken \/ CreateChatCompletions
SpecImg == InitImg /\ [][NextImg]_vars

====
